---- MODULE Spec2Model ----
(***************************************************************************)
(* Model of SandboxServer (src/sandbox_server.py): the in-memory table      *)
(* self.containers, the container runtime reached through docker_client,    *)
(* and the host filesystem holding the bind-mounted workspaces.             *)
(*                                                                          *)
(* Every tool is an `async def` without a single await, so a tool call runs *)
(* to completion on the event loop: one action per tool.  The outcomes of   *)
(* the runtime and filesystem calls a tool makes are inputs of its action.  *)
(* The runtime finishes the automatic removal of a stopped `remove=True`    *)
(* container on its own; that is the action RuntimeAutoRemove.              *)
(***************************************************************************)
EXTENDS Integers, Sequences, FiniteSets, TLC

\* ---------------------------------------------------------------- bounds
MaxHandles == 2     \* container ids the runtime issues to this server
MaxTemp == 2        \* temporary directory names mkdtemp can hand out
MaxWrites == 2      \* tool calls that reach a host file write
MaxOne == 1         \* container ids issued in SpecOne and SpecFiles
MaxLifeWrites == 1  \* host file writes in Spec and SpecOne
MaxTasks == 2       \* tool calls the event loop holds at a time

\* ---------------------------------------------------------------- values
ForeignIds == {0}                       \* a container this server did not start
OwnIds == 1..MaxHandles
Ids == ForeignIds \cup OwnIds

TempPaths == {<<"tmp", i>> : i \in 1..MaxTemp}
UserPaths == {<<"ws", 0>>}
Paths == TempPaths \cup UserPaths
NoPath == <<"none", 0>>                 \* host_workspace_path=None
\* host_workspace_path arguments: none, a directory of the caller, or the name
\* of a directory mkdtemp hands out
HostArgs == {NoPath} \cup UserPaths \cup {<<"tmp", 1>>}

FileNames == {"a.py", "b.py"}
FallbackName == "downloaded_file"
DiskNames == FileNames \cup {FallbackName}
Contents == {"v1", "v2"}
NoFile == "<absent>"
Partial == "<partial>"                  \* opened for writing, body incomplete
DownloadBody == "v1"                    \* what the server at download_url sends

BaseImage == <<"python", "3.9-slim">>
KnownImages == {BaseImage}              \* images the docker daemon can resolve
CreateImages == {BaseImage, <<"bogus", "latest">>}
\* the name argument of save_container_state, already cut at every ':'
SnapNames == {<<"env">>, <<"reg", "5000/env", "v1">>}

\* download_url: what urlparse/basename and the Content-Disposition regex yield
NoUrl == [given |-> FALSE, path |-> "", cd |-> ""]
Urls == {[given |-> TRUE, path |-> "a.py", cd |-> ""],
         [given |-> TRUE, path |-> "", cd |-> "b.py"],
         [given |-> TRUE, path |-> "", cd |-> ""]}

VARIABLES
    containers,   \* self.containers: id -> [mount_path, is_temp_dir, files]
    runtime,      \* containers the docker daemon knows: id -> [image, status, auto_remove]
    dirs,         \* host directories that exist
    disk,         \* the files on the host: <<directory, filename, content>>
    nextId,       \* next id the runtime issues
    nwrites,      \* host file writes attempted so far
    last,         \* the last tool call: arguments, runtime calls made, response
    scen,         \* progress of the first container through the scenario
    tasks         \* tool calls the event loop holds: [op, id, pc]

vars == <<containers, runtime, dirs, disk, nextId, nwrites, last, scen, tasks>>

\* ------------------------------------------------------------- dict helpers
\* self.containers[id] = rec
DictPut(d, k, v) == [x \in DOMAIN d \cup {k} |-> IF x = k THEN v ELSE d[x]]

\* del self.containers[id]
DictDel(d, k) == [x \in DOMAIN d \ {k} |-> d[x]]

\* position of filename in the insertion-ordered dict `files`, 0 if absent
FileIndex(files, name) ==
    IF \E i \in 1..Len(files) : files[i].name = name
    THEN CHOOSE i \in 1..Len(files) : files[i].name = name
    ELSE 0

\* mutant: the manifest is a list of writes
FilesSet_Append(files, name, content) == Append(files, [name |-> name, content |-> content])

\* container_info['files'][filename] = content  (a Python dict keeps a key's
\* first insertion position when the key is assigned again)
FilesSet(files, name, content) ==
    IF FileIndex(files, name) = 0
    THEN Append(files, [name |-> name, content |-> content])
    ELSE [files EXCEPT ![FileIndex(files, name)].content = content]

\* content of file n in directory p, NoFile if there is none
FileAt(d, p, n) ==
    IF \E t \in d : t[1] = p /\ t[2] = n
    THEN (CHOOSE t \in d : t[1] = p /\ t[2] = n)[3]
    ELSE NoFile

\* file n of directory p created or replaced with content v
FilePut(d, p, n, v) == {t \in d : ~(t[1] = p /\ t[2] = n)} \cup {<<p, n, v>>}

NoCall == [op |-> "none", id |-> 0, force |-> FALSE, result |-> "none",
           calls |-> <<>>, faults |-> {}, download |-> "none", output |-> <<>>,
           mount |-> NoPath, host |-> NoPath]

Init ==
    /\ containers = <<>>
    /\ runtime = [i \in ForeignIds |-> [image |-> BaseImage, status |-> "running",
                                        auto_remove |-> FALSE]]
    /\ dirs \in SUBSET UserPaths
    /\ disk = {}
    /\ nextId = 1
    /\ nwrites = 0
    /\ last = NoCall
    /\ scen = 0
    /\ tasks = {}

\* ------------------------------------------------- create_container_environment
\* mutant: a fixed name, whether or not a directory of that name exists
MkdTemp_First(ds) == <<"tmp", CHOOSE i \in 1..MaxTemp : \A j \in 1..MaxTemp : i <= j>>

\* tempfile.mkdtemp(): creates a directory under a name that did not exist.  The
\* names are opaque, so the unused name of least index stands for any of them.
MkdTemp(ds) ==
    <<"tmp", CHOOSE i \in 1..MaxTemp :
                 /\ <<"tmp", i>> \notin ds
                 /\ \A j \in 1..(i - 1) : <<"tmp", j>> \in ds>>

\* `if host_workspace_path:` -- the caller's path, else the mkdtemp() result
ResolveMount(host, ds) == IF host # NoPath THEN host ELSE MkdTemp(ds)

\* mutant: the flag is set on both branches
IsTempDir_Always(host) == TRUE

\* is_temp_dir: False at line 36, True only on the mkdtemp branch (line 44)
IsTempDir(host) == host = NoPath

\* docker_client.containers.run(...) raises: ImageNotFound for an image the
\* daemon cannot resolve, any other exception for a runtime fault
RunRaises(image, runOutcome) == image \notin KnownImages \/ runOutcome # "ok"

RunError(image) == IF image \notin KnownImages THEN "ImageNotFound" ELSE "ErrorCreating"

\* filename the download is stored under
DownloadFilename(url) ==
    IF url.path # "" THEN url.path
    ELSE IF url.cd # "" THEN url.cd
    ELSE FallbackName

\* the except clause (or none) a download outcome ends in
DownloadStatus(dlOutcome) ==
    CASE dlOutcome = "ok" -> "Downloaded"
      [] dlOutcome = "timeout" -> "Timeout"
      [] dlOutcome \in {"request", "stream"} -> "RequestFailed"
      [] OTHER -> "Error"

\* what the download leaves in the workspace directory
DiskAfterDownload(d, mount, url, dlOutcome) ==
    CASE dlOutcome = "ok" -> FilePut(d, mount, DownloadFilename(url), DownloadBody)
      [] dlOutcome \in {"stream", "write"} ->
              FilePut(d, mount, DownloadFilename(url), Partial)
      [] OTHER -> d

DlOutcomes == {"ok", "timeout", "request", "stream", "open", "write"}

\* mutant: the download runs in the outer try block, so its failure ends in the
\* `except Exception` of line 118
CreateResult_Propagates(dlOutcome) == IF dlOutcome = "ok" THEN "Created" ELSE "ErrorCreating"

\* the download has a try block of its own (lines 72-107) whose except clauses
\* only set download_status_message: line 109 is reached whatever the outcome
CreateResult(dlOutcome) == "Created"

\* mutant: the record is stored before containers.run is known to have returned
RegistryAfterRun_Early(c, id, rec, raised) == DictPut(c, id, rec)

\* self.containers after the try block: the assignment at line 62 is reached
\* only when containers.run returned a container
RegistryAfterRun(c, id, rec, raised) == IF raised THEN c ELSE DictPut(c, id, rec)

create_container_environment(image, persist, host_workspace_path, download_url, dirOutcome, runOutcome, dlOutcome) ==
    /\ nextId <= MaxHandles
    /\ host_workspace_path = NoPath => TempPaths \ dirs # {}
    /\ IF download_url.given THEN nwrites < MaxWrites ELSE dlOutcome = "ok"
    \* arguments and outcomes of calls that are never reached make no difference:
    \* one value stands for all of them
    /\ dirOutcome # "ok" => image = BaseImage /\ runOutcome = "ok"
    /\ image \notin KnownImages => runOutcome = "ok"
    /\ (dirOutcome # "ok" \/ RunRaises(image, runOutcome)) => persist /\ dlOutcome = "ok"
    /\ LET mount == ResolveMount(host_workspace_path, dirs)
           call == [NoCall EXCEPT !.op = "create", !.mount = mount,
                                  !.host = host_workspace_path]
       IN
       IF dirOutcome # "ok"
       THEN \* mkdir / mkdtemp raised: caught by `except Exception`
            /\ last' = [call EXCEPT !.result = "ErrorCreating", !.faults = {"resolve"},
                                    !.mount = NoPath]
            /\ UNCHANGED <<containers, runtime, dirs, disk, nextId, nwrites>>
       ELSE IF RunRaises(image, runOutcome)
       THEN /\ dirs' = dirs \cup {mount}
            /\ containers' = RegistryAfterRun(containers, nextId,
                              [mount_path |-> mount, is_temp_dir |-> IsTempDir(host_workspace_path),
                               files |-> <<>>], TRUE)
            /\ last' = [call EXCEPT !.result = RunError(image), !.calls = <<"run">>,
                                    !.faults = {"run"}]
            /\ UNCHANGED <<runtime, disk, nextId, nwrites>>
       ELSE /\ dirs' = dirs \cup {mount}
            /\ runtime' = DictPut(runtime, nextId,
                              [image |-> image, status |-> "running",
                               auto_remove |-> ~persist])
            /\ containers' = RegistryAfterRun(containers, nextId,
                              [mount_path |-> mount, is_temp_dir |-> IsTempDir(host_workspace_path),
                               files |-> <<>>], FALSE)
            /\ nextId' = nextId + 1
            /\ IF download_url.given
               THEN /\ disk' = DiskAfterDownload(disk, mount, download_url, dlOutcome)
                    /\ nwrites' = nwrites + 1
                    /\ last' = [call EXCEPT !.id = nextId, !.result = CreateResult(dlOutcome),
                                   !.calls = <<"run", "download">>,
                                   !.faults = IF dlOutcome = "ok" THEN {} ELSE {"download"},
                                   !.download = DownloadStatus(dlOutcome)]
               ELSE /\ last' = [call EXCEPT !.id = nextId, !.result = "Created",
                                   !.calls = <<"run">>]
                    /\ UNCHANGED <<disk, nwrites>>

\* ----------------------------------------------------- create_file_in_container
\* mutant: the membership test is missing
WriteRejects_Never(c, container_id) == FALSE

\* `if container_id not in self.containers: return "... not found"`
WriteRejects(c, container_id) == container_id \notin DOMAIN c

\* open(file_path, 'w') creates or truncates the file; f.write fills it
DiskAfterWrite(d, mount, filename, content, writeOutcome) ==
    CASE writeOutcome = "ok" -> FilePut(d, mount, filename, content)
      [] writeOutcome = "write" -> FilePut(d, mount, filename, Partial)
      [] OTHER -> d

\* mutant: the manifest is updated before the file is written
ManifestAfterWrite_First(files, filename, content, writeOutcome) ==
    FilesSet(files, filename, content)

\* line 146 runs only when the `with open(...)` block above it did not raise
ManifestAfterWrite(files, filename, content, writeOutcome) ==
    IF writeOutcome = "ok" THEN FilesSet(files, filename, content) ELSE files

WriteOutcomes == {"ok", "open", "write"}

create_file_in_container(container_id, filename, content, writeOutcome) ==
    LET call == [NoCall EXCEPT !.op = "write", !.id = container_id] IN
    IF WriteRejects(containers, container_id)
    THEN /\ writeOutcome = "ok"
         /\ last' = [call EXCEPT !.result = "NotFound"]
         /\ UNCHANGED <<containers, runtime, dirs, disk, nextId, nwrites>>
    ELSE IF container_id \notin DOMAIN containers
    THEN \* self.containers[container_id] raises KeyError inside the try block
         /\ writeOutcome = "ok"
         /\ last' = [call EXCEPT !.result = "ErrorCreatingFile"]
         /\ UNCHANGED <<containers, runtime, dirs, disk, nextId, nwrites>>
    ELSE LET mount == containers[container_id].mount_path
             \* open() raises when the directory is gone
             outcome == IF mount \in dirs THEN writeOutcome ELSE "open"
         IN
         /\ nwrites < MaxWrites
         /\ mount \notin dirs => writeOutcome = "open"
         /\ disk' = DiskAfterWrite(disk, mount, filename, content, outcome)
         /\ containers' = [containers EXCEPT ![container_id].files =
                              ManifestAfterWrite(@, filename, content, outcome)]
         /\ nwrites' = nwrites + 1
         /\ last' = [call EXCEPT !.mount = mount,
                        !.calls = <<"open">>,
                        !.faults = IF outcome = "ok" THEN {} ELSE {outcome},
                        !.result = IF outcome = "ok" THEN "FileCreated"
                                   ELSE "ErrorCreatingFile"]
         /\ UNCHANGED <<runtime, dirs, nextId>>

\* ------------------------------------------------- execute_command_in_container
\* docker_client.containers.get(id): NotFound for an id the daemon does not know
GetRaises(rt, container_id) == container_id \notin DOMAIN rt

\* mutant: a command that ran is recorded in the container's file table
execute_command_records(container_id, execOutcome) ==
    LET call == [NoCall EXCEPT !.op = "exec", !.id = container_id] IN
    /\ ~GetRaises(runtime, container_id)
    /\ runtime[container_id].status = "running" /\ execOutcome = "ok"
    /\ last' = [call EXCEPT !.result = "Output", !.calls = <<"get", "exec_run">>]
    /\ containers' = IF container_id \in DOMAIN containers
                     THEN [containers EXCEPT ![container_id].files =
                              FilesSet(@, "a.py", "v1")]
                     ELSE containers
    /\ UNCHANGED <<runtime, dirs, disk, nextId, nwrites>>

execute_command_in_container(container_id, execOutcome) ==
    LET call == [NoCall EXCEPT !.op = "exec", !.id = container_id] IN
    IF GetRaises(runtime, container_id)
    THEN /\ execOutcome = "ok"
         /\ last' = [call EXCEPT !.result = "NotFound", !.calls = <<"get">>]
         /\ UNCHANGED <<containers, runtime, dirs, disk, nextId, nwrites>>
    ELSE IF runtime[container_id].status # "running" \/ execOutcome # "ok"
    THEN \* exec_run raises APIError (container not running, daemon fault)
         /\ last' = [call EXCEPT !.result = "ErrorExecuting",
                        !.calls = <<"get", "exec_run">>, !.faults = {"exec_run"}]
         /\ UNCHANGED <<containers, runtime, dirs, disk, nextId, nwrites>>
    ELSE /\ last' = [call EXCEPT !.result = "Output", !.calls = <<"get", "exec_run">>]
         /\ UNCHANGED <<containers, runtime, dirs, disk, nextId, nwrites>>

\* ----------------------------------------------------------- save_container_state
\* `name.split(':') if ':' in name else (name, 'latest')`; the two-name
\* unpacking raises ValueError when the name holds more than one ':'
SplitRaises(parts) == Len(parts) > 2

SplitName(parts) == IF Len(parts) > 1 THEN <<parts[1], parts[2]>> ELSE <<parts[1], "latest">>

save_container_state(container_id, name, commitOutcome) ==
    LET call == [NoCall EXCEPT !.op = "save", !.id = container_id] IN
    IF GetRaises(runtime, container_id)
    THEN /\ commitOutcome = "ok"
         /\ last' = [call EXCEPT !.result = "NotFound", !.calls = <<"get">>]
         /\ UNCHANGED <<containers, runtime, dirs, disk, nextId, nwrites>>
    ELSE IF SplitRaises(name)
    THEN /\ commitOutcome = "ok"
         /\ last' = [call EXCEPT !.result = "ErrorSaving", !.calls = <<"get">>]
         /\ UNCHANGED <<containers, runtime, dirs, disk, nextId, nwrites>>
    ELSE IF commitOutcome # "ok"
    THEN /\ last' = [call EXCEPT !.result = "ErrorSaving", !.calls = <<"get", "commit">>,
                        !.faults = {"commit"}]
         /\ UNCHANGED <<containers, runtime, dirs, disk, nextId, nwrites>>
    ELSE /\ last' = [call EXCEPT !.result = "Saved", !.calls = <<"get", "commit">>,
                        !.output = <<SplitName(name)>>]
         /\ UNCHANGED <<containers, runtime, dirs, disk, nextId, nwrites>>

\* ---------------------------------------------------------------- export_dockerfile
\* self.containers.get(container_id, {}) and `if 'files' in info`
InfoFiles(c, container_id) ==
    IF container_id \in DOMAIN c THEN c[container_id].files ELSE <<>>

\* the list `history`: one COPY line per key of info['files'], in dict order
CopyLines(files) == [i \in 1..Len(files) |-> <<"COPY", files[i].name, files[i].name>>]

Dockerfile(image, files) ==
    <<<<"FROM", image[1], image[2]>>, <<"WORKDIR", "/workspace", "">>>>
       \o CopyLines(files)
       \o <<<<"#", "Add any additional steps needed:", "">>,
            <<"#", "RUN pip install <packages>", "">>,
            <<"#", "COPY <src> <dest>", "">>,
            <<"#", "etc.", "">>>>

export_dockerfile(container_id) ==
    LET call == [NoCall EXCEPT !.op = "export", !.id = container_id] IN
    /\ IF GetRaises(runtime, container_id)
       THEN last' = [call EXCEPT !.result = "NotFound", !.calls = <<"get">>]
       ELSE last' = [call EXCEPT !.result = "Dockerfile", !.calls = <<"get">>,
                        !.output = Dockerfile(runtime[container_id].image,
                                              InfoFiles(containers, container_id))]
    /\ UNCHANGED <<containers, runtime, dirs, disk, nextId, nwrites>>

\* --------------------------------------------------------------------- exit_container
\* mutant: a failed stop is swallowed and the removal goes ahead
StopAborts_Never(force, stopOutcome) == FALSE

\* `if not force: try: container.stop(timeout=10) except Exception: return ...`
StopAborts(force, stopOutcome) == ~force /\ stopOutcome # "ok"

\* container state when container.remove is called
StatusAfterStop(status, force) ==
    IF force \/ status = "removing" THEN status ELSE "exited"

\* A stopped container started with remove=True is being removed by the daemon
\* while the tool goes on to container.remove: the daemon may not have begun
\* ("pending"), may be at it ("in_progress") or may have finished ("done").
AutoRaces(rt, force) == rt.auto_remove /\ StatusAfterStop(rt.status, force) = "exited"

\* how container.remove(force=force) ends
RemoveResult(rt, force, autoOutcome, removeOutcome) ==
    IF AutoRaces(rt, force) /\ autoOutcome = "done" THEN "notfound"
    ELSE IF StatusAfterStop(rt.status, force) = "removing"
            \/ (AutoRaces(rt, force) /\ autoOutcome = "in_progress") THEN "conflict"
    ELSE IF removeOutcome # "ok" THEN "fault"
    ELSE "ok"

\* what the daemon holds after container.remove: the container is gone when the
\* call succeeded or found it gone, is being removed after a conflict, and is
\* left as the stop left it after any other failure
RuntimeAfterRemove(rts, container_id, force, res) ==
    CASE res \in {"ok", "notfound"} -> DictDel(rts, container_id)
      [] res = "conflict" -> [rts EXCEPT ![container_id].status = "removing"]
      [] OTHER -> [rts EXCEPT ![container_id].status = StatusAfterStop(@, force)]

\* mutant: the cleanup sits in a `finally` and runs whatever container.remove did
CleanupReached_Always(res) == TRUE

\* lines 278-290 follow container.remove inside the try block: they run only
\* when it returned
CleanupReached(res) == res = "ok"

\* container_info = self.containers.get(container_id, {}), then ['mount_path']
InfoMount(c, container_id) ==
    IF container_id \in DOMAIN c THEN c[container_id].mount_path ELSE NoPath

\* `if container_info.get('is_temp_dir') and 'mount_path' in container_info`
CleansTemp(c, container_id) ==
    container_id \in DOMAIN c /\ c[container_id].is_temp_dir

\* shutil.rmtree(mount_path) inside try/except: a failure is printed and dropped
RmtreeResult(ds, mount, rmOutcome) == IF mount \in ds THEN rmOutcome ELSE "fail"

DirsAfterRmtree(ds, mount, rmOutcome) ==
    IF RmtreeResult(ds, mount, rmOutcome) = "ok" THEN ds \ {mount} ELSE ds

DiskAfterRmtree(d, ds, mount, rmOutcome) ==
    IF RmtreeResult(ds, mount, rmOutcome) \in {"ok", "partial"}
    THEN {t \in d : t[1] # mount}
    ELSE d

\* `if container_id in self.containers: del self.containers[container_id]`
RegistryAfterExit(c, container_id) ==
    IF container_id \in DOMAIN c THEN DictDel(c, container_id) ELSE c

RmOutcomes == {"ok", "fail", "partial"}
AutoOutcomes == {"pending", "in_progress", "done"}

exit_container(container_id, force, stopOutcome, autoOutcome, removeOutcome, rmOutcome) ==
    LET call == [NoCall EXCEPT !.op = "exit", !.id = container_id, !.force = force,
                               !.mount = InfoMount(containers, container_id)]
    IN
    IF GetRaises(runtime, container_id)
    THEN /\ stopOutcome = "ok" /\ autoOutcome = "pending"
         /\ removeOutcome = "ok" /\ rmOutcome = "ok"
         /\ last' = [call EXCEPT !.result = "NotFound", !.calls = <<"get">>]
         /\ UNCHANGED <<containers, runtime, dirs, disk, nextId, nwrites>>
    ELSE LET rt == runtime[container_id]
             stopCalls == IF force THEN <<"get">> ELSE <<"get", "stop">>
         IN
         IF StopAborts(force, stopOutcome)
         THEN /\ autoOutcome = "pending" /\ removeOutcome = "ok" /\ rmOutcome = "ok"
              /\ last' = [call EXCEPT !.result = "StopFailed", !.calls = stopCalls,
                             !.faults = {"stop"}]
              /\ UNCHANGED <<containers, runtime, dirs, disk, nextId, nwrites>>
         ELSE LET res == RemoveResult(rt, force, autoOutcome, removeOutcome)
                  calls == Append(stopCalls, "remove")
                  stopFaults == IF ~force /\ stopOutcome # "ok" THEN {"stop"} ELSE {}
              IN
              /\ force => stopOutcome = "ok"
              /\ ~AutoRaces(rt, force) => autoOutcome = "pending"
              /\ res # "ok" => rmOutcome = "ok"
              /\ res \in {"notfound", "conflict"} => removeOutcome = "ok"
              /\ runtime' = RuntimeAfterRemove(runtime, container_id, force, res)
              /\ CASE ~CleanupReached(res) /\ res = "notfound" ->
                        /\ last' = [call EXCEPT !.result = "NotFound", !.calls = calls,
                                       !.faults = stopFaults]
                        /\ UNCHANGED <<containers, dirs, disk>>
                   [] ~CleanupReached(res) /\ res = "conflict" ->
                        /\ last' = [call EXCEPT !.result = "ErrorCleaning", !.calls = calls,
                                       !.faults = stopFaults]
                        /\ UNCHANGED <<containers, dirs, disk>>
                   [] ~CleanupReached(res) /\ res = "fault" ->
                        /\ last' = [call EXCEPT !.result = "ErrorCleaning", !.calls = calls,
                                       !.faults = stopFaults \cup {"remove"}]
                        /\ UNCHANGED <<containers, dirs, disk>>
                   [] OTHER ->
                        /\ IF CleansTemp(containers, container_id)
                           THEN LET mount == containers[container_id].mount_path IN
                                /\ dirs' = DirsAfterRmtree(dirs, mount, rmOutcome)
                                /\ disk' = DiskAfterRmtree(disk, dirs, mount, rmOutcome)
                                /\ last' = [call EXCEPT !.result = "Removed",
                                               !.calls = Append(calls, "rmtree"),
                                               !.faults = stopFaults \cup
                                                  (IF RmtreeResult(dirs, mount, rmOutcome) = "ok"
                                                   THEN {} ELSE {"rmtree"})]
                           ELSE /\ rmOutcome = "ok"
                                /\ last' = [call EXCEPT !.result = "Removed", !.calls = calls,
                                               !.faults = stopFaults]
                                /\ UNCHANGED <<dirs, disk>>
                        /\ containers' = RegistryAfterExit(containers, container_id)
              /\ UNCHANGED <<nextId, nwrites>>

\* ------------------------------------------------------------------------ the runtime
\* containers.run(..., remove=not persist): the daemon removes the container by
\* itself once it has stopped
RuntimeAutoRemove(container_id) ==
    /\ container_id \in DOMAIN runtime
    /\ runtime[container_id].auto_remove
    /\ runtime[container_id].status \in {"exited", "removing"}
    /\ runtime' = DictDel(runtime, container_id)
    /\ last' = [NoCall EXCEPT !.op = "auto_remove", !.id = container_id]
    /\ UNCHANGED <<containers, dirs, disk, nextId, nwrites>>

Outcomes == {"ok", "fail"}

\* ---------------------------------------------------------- the scenario observer
\* scen follows the first container through the scenario "create with
\* persist=False and no host path, write a file, run a command, exit without
\* force": 1 created, 2 file written, 3 command run, 4 exit_container returned
\* with no fault injected into stop, remove or rmtree.  last is the last event:
\* a tool call or the daemon's automatic removal.
ScenarioId == CHOOSE i \in OwnIds : \A j \in OwnIds : i <= j   \* the first id issued

Observe(s, l, c, rt) ==
    IF l.id # ScenarioId THEN (IF s = 4 THEN 0 ELSE s)
    ELSE IF l.op = "create" /\ l.result = "Created"
         THEN (IF c[ScenarioId].is_temp_dir /\ rt[ScenarioId].auto_remove THEN 1 ELSE 0)
    ELSE IF l.op = "write" /\ l.result = "FileCreated" /\ s = 1 THEN 2
    ELSE IF l.op = "exec" /\ l.result = "Output" /\ s = 2 THEN 3
    ELSE IF l.op = "exit" /\ ~l.force /\ l.faults = {} /\ s = 3 THEN 4
    ELSE IF l.op = "auto_remove" THEN (IF s = 4 THEN 0 ELSE s)
    ELSE IF l.op = "exit" \/ s = 4 THEN 0
    ELSE s

\* a handler (or the daemon) takes its step and the observer follows it
Run(A) == A /\ scen' = Observe(scen, last', containers', runtime')

\* a tool call handled from arrival to return in one piece
Call(A) == Run(A) /\ UNCHANGED tasks

\* ------------------------------------------------------------------ specifications
\* exit_container with every outcome its runtime and filesystem calls can have;
\* the outcomes of calls it does not make are not enumerated
ExitRun(id, force) ==
    \E stopOutcome \in IF force THEN {"ok"} ELSE Outcomes :
    \E autoOutcome \in IF id \in DOMAIN runtime /\ stopOutcome = "ok"
                            /\ AutoRaces(runtime[id], force)
                         THEN AutoOutcomes ELSE {"pending"} :
    \E removeOutcome \in IF stopOutcome = "ok" THEN Outcomes ELSE {"ok"} :
    \E rmOutcome \in IF CleansTemp(containers, id) /\ removeOutcome = "ok"
                      THEN RmOutcomes ELSE {"ok"} :
        Run(exit_container(id, force, stopOutcome, autoOutcome, removeOutcome,
                          rmOutcome))

ExitCall(id, force) == ExitRun(id, force) /\ UNCHANGED tasks

\* Spec: every lifecycle input and fault; file traffic kept to one file of the
\* first container, which is also the one snapshotted and exported; commands
\* are run on it and on the container this server did not start.
LifeWriteIds == {ScenarioId}
LifeExecIds == ForeignIds \cup {ScenarioId}
LifeFileNames == {"a.py"}
LifeContents == {"v1"}
LifeWriteOutcomes == {"ok", "open"}

Next ==
    \/ \E image \in CreateImages, persist \in BOOLEAN, host \in HostArgs,
          dirOutcome \in Outcomes, runOutcome \in Outcomes :
          Call(create_container_environment(image, persist, host, NoUrl, dirOutcome,
                                          runOutcome, "ok"))
    \/ \E id \in LifeWriteIds, filename \in LifeFileNames, content \in LifeContents,
          writeOutcome \in LifeWriteOutcomes :
          /\ nwrites < MaxLifeWrites
          /\ Call(create_file_in_container(id, filename, content, writeOutcome))
    \/ \E id \in LifeExecIds, execOutcome \in Outcomes :
          Call(execute_command_in_container(id, execOutcome))
    \/ \E id \in LifeWriteIds, name \in SnapNames, commitOutcome \in Outcomes :
          Call(save_container_state(id, name, commitOutcome))
    \/ \E id \in LifeWriteIds : Call(export_dockerfile(id))
    \/ \E id \in OwnIds, force \in BOOLEAN : ExitCall(id, force)
    \/ \E id \in OwnIds : Call(RuntimeAutoRemove(id))

Spec == Init /\ [][Next]_vars

\* SpecOne: as Spec, with the runtime issuing at most MaxOne ids, the host path
\* either left out or a directory of the caller, and commands run on the first
\* container only.
NextOne ==
    \/ \E image \in CreateImages, persist \in BOOLEAN, host \in {NoPath} \cup UserPaths,
          dirOutcome \in Outcomes, runOutcome \in Outcomes :
          /\ nextId <= MaxOne \/ dirOutcome # "ok" \/ RunRaises(image, runOutcome)
          /\ Call(create_container_environment(image, persist, host, NoUrl, dirOutcome,
                                             runOutcome, "ok"))
    \/ \E id \in LifeWriteIds, filename \in LifeFileNames, content \in LifeContents,
          writeOutcome \in LifeWriteOutcomes :
          /\ nwrites < MaxLifeWrites
          /\ Call(create_file_in_container(id, filename, content, writeOutcome))
    \/ \E id \in LifeWriteIds, execOutcome \in Outcomes :
          Call(execute_command_in_container(id, execOutcome))
    \/ \E id \in LifeWriteIds, name \in SnapNames, commitOutcome \in Outcomes :
          Call(save_container_state(id, name, commitOutcome))
    \/ \E id \in LifeWriteIds : Call(export_dockerfile(id))
    \/ \E id \in OwnIds, force \in BOOLEAN : ExitCall(id, force)
    \/ \E id \in OwnIds : Call(RuntimeAutoRemove(id))

SpecOne == Init /\ [][NextOne]_vars

\* SpecFiles: every file and download input and fault; at most MaxOne containers
\* are created, from a good image with persist=True, and removed with force.
NextFiles ==
    \/ \E host \in {NoPath} \cup UserPaths, url \in Urls \cup {NoUrl},
          dlOutcome \in DlOutcomes :
          /\ nextId <= MaxOne
          /\ Call(create_container_environment(BaseImage, TRUE, host, url, "ok", "ok",
                                             dlOutcome))
    \/ \E id \in Ids, filename \in FileNames, content \in Contents,
          writeOutcome \in WriteOutcomes :
          Call(create_file_in_container(id, filename, content, writeOutcome))
    \/ \E id \in LifeWriteIds, execOutcome \in Outcomes :
          Call(execute_command_in_container(id, execOutcome))
    \/ \E id \in LifeWriteIds, name \in SnapNames, commitOutcome \in Outcomes :
          Call(save_container_state(id, name, commitOutcome))
    \/ \E id \in LifeExecIds : Call(export_dockerfile(id))
    \/ \E id \in OwnIds :
          Call(exit_container(id, TRUE, "ok", "pending", "ok", "ok"))

SpecFiles == Init /\ [][NextFiles]_vars

\* ------------------------------------------------------------------ the event loop
\* FastMCP starts one task per inbound tool call, all of them on one asyncio
\* event loop.  A task is pending from the arrival of the call until the loop
\* enters its handler, and running from the `async def` line to the return.
TaskOps == {"create", "write", "exec", "exit"}

InFlight(ts) == {t \in ts : t.pc = "running"}

\* mutant: handlers give up the loop at their blocking calls
LoopIdle_Always(ts) == TRUE

\* No handler contains an await: the loop is handed back only by the return,
\* so it enters a handler only when none is running.
LoopIdle(ts) == InFlight(ts) = {}

\* a tool call arrives; create_container_environment takes no container id
Submit(op, id) ==
    /\ Cardinality(tasks) < MaxTasks
    /\ op = "create" <=> id \in ForeignIds
    /\ tasks' = tasks \cup {[op |-> op, id |-> id, pc |-> "pending"]}
    /\ UNCHANGED <<containers, runtime, dirs, disk, nextId, nwrites, last, scen>>

\* the loop enters the handler of a pending call; a create is about to insert
\* the id the runtime issues next
Begin(t) ==
    /\ t \in tasks /\ t.pc = "pending"
    /\ LoopIdle(tasks)
    /\ t.op = "create" => nextId <= MaxHandles /\ TempPaths \ dirs # {}
    /\ t.op = "write" => nwrites < MaxLifeWrites
    /\ tasks' = (tasks \ {t}) \cup
                {[t EXCEPT !.pc = "running",
                           !.id = IF t.op = "create" THEN nextId ELSE t.id]}
    /\ UNCHANGED <<containers, runtime, dirs, disk, nextId, nwrites, last, scen>>

\* the running handler goes from its first line to its return; the arguments
\* besides the container id are drawn here
Finish(t) ==
    /\ t \in tasks /\ t.pc = "running"
    /\ tasks' = tasks \ {t}
    /\ CASE t.op = "create" ->
               Run(create_container_environment(BaseImage, TRUE, NoPath, NoUrl,
                                                "ok", "ok", "ok"))
         [] t.op = "write" ->
               Run(create_file_in_container(t.id, "a.py", "v1", "ok"))
         [] t.op = "exec" ->
               Run(execute_command_in_container(t.id, "ok"))
         [] OTHER ->
               \E force \in BOOLEAN :
                   Run(exit_container(t.id, force, "ok", "pending", "ok", "ok"))

\* SpecTasks: tool calls arrive in any number and order and the event loop runs
\* their handlers; containers are created with persist=True and no host path,
\* files are written and commands run in the first one, and no fault is injected.
NextTasks ==
    \/ \E op \in TaskOps, id \in Ids :
          /\ op \in {"write", "exec"} => id \in LifeWriteIds
          /\ Submit(op, id)
    \/ \E t \in tasks : Begin(t)
    \/ \E t \in tasks : Finish(t)

SpecTasks == Init /\ [][NextTasks]_vars

\* ============================================================== the claims
Live == DOMAIN containers

Called(l, name) == \E i \in 1..Len(l.calls) : l.calls[i] = name

\* C1: a handle is in the Registry exactly when the runtime knows a container
\* with that handle that this server created.
C1_RegistryMatchesRuntime == Live = DOMAIN runtime \ ForeignIds

\* C2: create (persist=False, no host path), write_file, execute_command and
\* exit_container without force, none of them hit by a fault, end with the
\* confirmation, the handle out of the Registry and the mount path gone.
C2_ScenarioEndsDestroyed ==
    scen = 4 =>
        /\ last.result = "Removed"
        /\ ScenarioId \notin Live
        /\ last.mount \notin dirs

\* C3: when exit_container has dropped the record of a temporary workspace and
\* confirmed, the workspace directory no longer exists, also when rmtree failed.
C3_EphemeralDirGone ==
    (last.op = "exit" /\ last.result = "Removed" /\ Called(last, "rmtree"))
        => last.mount \notin dirs

\* C4: a graceful stop that fails without force returns the stop failure, never
\* calls remove, and leaves the Registry, the runtime and the host untouched,
\* so the container and its record are still there for a forced exit.
C4_StopFailureAborts ==
    [][(last'.op = "exit" /\ ~last'.force /\ "stop" \in last'.faults) =>
          /\ last'.result = "StopFailed"
          /\ ~Called(last', "remove")
          /\ containers' = containers
          /\ runtime' = runtime
          /\ dirs' = dirs /\ disk' = disk
          /\ last'.id \in DOMAIN runtime']_vars

C4_Witness ==
    /\ last.op = "exit" /\ last.result = "StopFailed"
    /\ last.id \in Live
    /\ containers[last.id].files # <<>>
    /\ last.mount \in dirs

\* C5: a create whose containers.run raised (ImageNotFound or another fault)
\* reports the error and leaves the Registry as it was.
C5_FailedCreateInsertsNothing ==
    [][(last'.op = "create" /\ "run" \in last'.faults) =>
          /\ containers' = containers
          /\ last'.result \in {"ImageNotFound", "ErrorCreating"}]_vars

C5_Witness ==
    /\ last.op = "create" /\ last.result = "ImageNotFound"
    /\ Live # {}

\* C6: write_file on a handle that is not in the Registry answers "not found"
\* and changes nothing: no file, no manifest, no record.
C6_WriteUnknownHandle ==
    [][(last'.op = "write" /\ last'.id \notin Live) =>
          /\ last'.result = "NotFound"
          /\ last'.calls = <<>>
          /\ containers' = containers
          /\ runtime' = runtime
          /\ dirs' = dirs /\ disk' = disk]_vars

C6_Witness ==
    /\ last.op = "write" /\ last.result = "NotFound"
    /\ last.id \in DOMAIN runtime
    /\ \E id \in Live : containers[id].files # <<>>

\* C7: execute_command on a handle that is not in the Registry answers "not
\* found" without issuing an exec, also when the runtime knows the container.
C7_ExecRequiresRecord ==
    (last.op = "exec" /\ last.id \notin Live) =>
        (last.result = "NotFound" /\ ~Called(last, "exec_run"))

\* C8: a manifest changes only in a write_file whose file write completed, and
\* then by exactly that entry; a failed write returns an error; a new record
\* starts with an empty manifest.
C8_ManifestFollowsWrite ==
    [][/\ \A id \in Live \cap DOMAIN containers' :
             containers'[id].files # containers[id].files =>
                /\ last'.op = "write" /\ last'.id = id
                /\ last'.result = "FileCreated"
                /\ \E n \in FileNames, c \in Contents :
                      /\ containers'[id].files = FilesSet(containers[id].files, n, c)
                      /\ FileAt(disk', containers[id].mount_path, n) = c
       /\ \A id \in DOMAIN containers' \ Live : containers'[id].files = <<>>
       /\ (last'.op = "write" /\ last'.faults # {}) =>
             last'.result = "ErrorCreatingFile"]_vars

C8_Witness ==
    /\ last.op = "write" /\ last.result = "ErrorCreatingFile"
    /\ "write" \in last.faults
    /\ last.id \in Live
    /\ containers[last.id].files # <<>>
    /\ \E n \in FileNames : FileAt(disk, last.mount, n) = Partial

\* C9: execute_command, save_container_state and export_dockerfile leave the
\* Registry as it was whatever their outcome, and a manifest differs after a
\* step only if the step was a write_file.
C9_ReadersLeaveRegistry ==
    [][/\ last'.op \in {"exec", "save", "export"} => containers' = containers
       /\ \A id \in Live \cap DOMAIN containers' :
             containers'[id].files # containers[id].files => last'.op = "write"]_vars

C9_Witness ==
    /\ last.op = "exec" /\ last.result = "Output"
    /\ last.id \in Live
    /\ Len(containers[last.id].files) = 2

\* C10: no two live records have the same mount path.
C10_MountPathUnique ==
    \A i, j \in Live : i # j => containers[i].mount_path # containers[j].mount_path

TypeOK ==
    /\ DOMAIN containers \subseteq OwnIds
    /\ DOMAIN runtime \subseteq Ids
    /\ dirs \subseteq Paths
    /\ nextId \in 1..(MaxHandles + 1)
    /\ nwrites \in 0..MaxWrites
    /\ scen \in 0..4
    /\ \A t \in disk : t[1] \in dirs /\ t[2] \in DiskNames
    /\ \A t \in tasks : t.op \in TaskOps /\ t.id \in Ids /\ t.pc \in {"pending", "running"}
    /\ Cardinality(tasks) <= MaxTasks

\* C11: no two handlers are in flight on one handle when both mutate it
\* (create's insert, write_file, exit_container), and exit_container is never
\* in flight together with an execute_command or write_file on its handle,
\* whatever calls arrive and in whatever order.
C11_ExclusivePerHandle ==
    \A t, u \in InFlight(tasks) :
        (t # u /\ t.id = u.id) =>
            /\ ~(t.op \in {"create", "write", "exit"} /\ u.op \in {"create", "write", "exit"})
            /\ ~(t.op = "exit" /\ u.op \in {"exec", "write"})

C11_Witness ==
    \E t \in InFlight(tasks) :
        /\ t.op = "exit" /\ t.id \in Live
        /\ \E u \in tasks : u.pc = "pending" /\ u.id = t.id /\ u.op \in {"write", "exec"}
\* C12: a create whose download failed (timeout, request or status error, file
\* error) still answers with the handle and a download-failure line; its record
\* is in the Registry and its container runs, so a later write_file or
\* execute_command that meets no fault of its own succeeds.
C12_DownloadFailureKeepsEnvironment ==
    [][/\ (last'.op = "create" /\ "download" \in last'.faults) =>
             /\ last'.result = "Created"
             /\ last'.download \in {"Timeout", "RequestFailed", "Error"}
             /\ last'.id \notin Live /\ last'.id \in DOMAIN containers'
             /\ containers'[last'.id].mount_path \in dirs'
             /\ last'.id \in DOMAIN runtime' /\ runtime'[last'.id].status = "running"
       /\ (last'.op = "write" /\ last'.id \in Live /\ last'.faults = {}) =>
             last'.result = "FileCreated"
       /\ (last'.op = "exec" /\ last'.id \in Live /\ last'.id \in DOMAIN runtime
              /\ last'.faults = {}) => last'.result = "Output"]_vars

C12_Witness ==
    /\ last.op = "write" /\ last.result = "FileCreated"
    /\ FileAt(disk, last.mount, FallbackName) = Partial
\* C13: when exit_container has dropped the record of a workspace the caller
\* supplied, that directory still exists on the host.
C13_HostDirSurvives ==
    (last.op = "exit" /\ last.result = "Removed" /\ last.mount # NoPath
       /\ ~Called(last, "rmtree")) => last.mount \in dirs

\* C14: a successful create with host_workspace_path=P stores a record with
\* mount_path P and is_temp_dir False, and P exists afterwards whether or not
\* it did before; a successful create without a host path stores a record with
\* is_temp_dir True on a directory that did not exist before.
C14_CreateRecordsMount ==
    [][(last'.op = "create" /\ last'.result = "Created") =>
          /\ last'.id \notin Live /\ last'.id \in DOMAIN containers'
          /\ containers'[last'.id].files = <<>>
          /\ containers'[last'.id].mount_path \in dirs'
          /\ IF last'.host # NoPath
             THEN /\ containers'[last'.id].mount_path = last'.host
                  /\ ~containers'[last'.id].is_temp_dir
             ELSE /\ containers'[last'.id].is_temp_dir
                  /\ containers'[last'.id].mount_path \in TempPaths \ dirs]_vars

C14_Witness ==
    /\ last.op = "create" /\ last.result = "Created"
    /\ last.host \in UserPaths
    /\ containers[last.id].mount_path = last.host
    /\ ~containers[last.id].is_temp_dir
    /\ last.host \in dirs

\* C15: two records created without a host path never have the same mount
\* path, in whatever order the event loop runs the pending calls.
C15_TempMountsDistinct ==
    \A i, j \in Live :
        (i # j /\ containers[i].is_temp_dir /\ containers[j].is_temp_dir) =>
            containers[i].mount_path # containers[j].mount_path

C15_Witness ==
    /\ \E i, j \in Live : i # j /\ containers[i].is_temp_dir /\ containers[j].is_temp_dir
    /\ \E t \in tasks : t.op = "create"
\* C16: the Dockerfile export_dockerfile returns has exactly one COPY line per
\* filename of the record's manifest and none twice, and a manifest holds
\* exactly the filenames written so far: a completed write_file adds its
\* filename unless the manifest has it already, and nothing else changes the
\* set of filenames.
ManifestNames(files) == {files[i].name : i \in 1..Len(files)}

CopyLinesOf(output) == SelectSeq(output, LAMBDA line : line[1] = "COPY")

C16_OneCopyLinePerFile ==
    [][/\ (last'.op = "export" /\ last'.result = "Dockerfile") =>
            LET copies == CopyLinesOf(last'.output)
                names == ManifestNames(InfoFiles(containers', last'.id))
            IN /\ \A i, j \in 1..Len(copies) : i # j => copies[i][2] # copies[j][2]
               /\ {copies[i][2] : i \in 1..Len(copies)} = names
               /\ Len(copies) = Cardinality(names)
       /\ \A id \in Live \cap DOMAIN containers' :
            IF last'.op = "write" /\ last'.id = id /\ last'.result = "FileCreated"
            THEN \E n \in FileNames :
                    /\ ManifestNames(containers'[id].files) =
                          ManifestNames(containers[id].files) \cup {n}
                    /\ FileAt(disk', containers[id].mount_path, n) \in Contents
            ELSE ManifestNames(containers'[id].files) = ManifestNames(containers[id].files)
       /\ \A id \in DOMAIN containers' :
            Len(containers'[id].files) = Cardinality(ManifestNames(containers'[id].files))]_vars

C16_Witness ==
    /\ last.op = "export" /\ last.result = "Dockerfile" /\ last.id \in Live
    /\ nwrites = MaxWrites
    /\ Len(CopyLinesOf(last.output)) = 1
    /\ containers[last.id].files[1].content = "v2"
    /\ FileAt(disk, containers[last.id].mount_path, containers[last.id].files[1].name) = "v2"
\* C17: exit_container calls stop (not with force), then remove, then rmtree,
\* in that order.  When remove did not succeed the record stays and nothing on
\* the host is deleted; whenever the record is dropped or anything is deleted,
\* remove has been called and the runtime no longer knows the container; the
\* directory of a live ephemeral record disappears only in its own
\* exit_container, after its container is gone.
ExitOrder(force) ==
    IF force THEN <<"get", "remove", "rmtree">> ELSE <<"get", "stop", "remove", "rmtree">>

C17_ExitOrder ==
    [][/\ last'.op = "exit" =>
            /\ Len(last'.calls) <= Len(ExitOrder(last'.force))
            /\ last'.calls = SubSeq(ExitOrder(last'.force), 1, Len(last'.calls))
            /\ (Called(last', "remove") /\ last'.result # "Removed") =>
                  containers' = containers /\ dirs' = dirs /\ disk' = disk
            /\ (containers' # containers \/ dirs' # dirs \/ disk' # disk) =>
                  /\ last'.result = "Removed" /\ Called(last', "remove")
                  /\ last'.id \notin DOMAIN runtime'
            /\ Called(last', "rmtree") =>
                  /\ last'.id \in Live /\ containers[last'.id].is_temp_dir
                  /\ last'.id \notin DOMAIN containers'
       /\ \A id \in Live :
            (containers[id].is_temp_dir /\ containers[id].mount_path \in dirs
               /\ containers[id].mount_path \notin dirs') =>
                  /\ last'.op = "exit" /\ last'.id = id
                  /\ id \notin DOMAIN runtime']_vars

C17_Witness ==
    /\ last.op = "exit" /\ "remove" \in last.faults
    /\ last.id \in Live /\ containers[last.id].is_temp_dir
    /\ last.mount \in dirs
    /\ last.id \in DOMAIN runtime
\* C18: exit_container with force=True on a handle that has a record, with no
\* fault injected into remove or rmtree, ends with the record out of the
\* Registry and, when the workspace was temporary, the directory deleted; also
\* when the runtime no longer knows the container.
C18_ForcedExitDropsRecord ==
    (last.op = "exit" /\ last.force /\ last.mount # NoPath /\ last.faults = {}) =>
        /\ last.id \notin Live
        /\ Called(last, "rmtree") => last.mount \notin dirs

\* C19: the mount path of every live record exists on the host.
C19_LiveMountExists ==
    \A id \in Live : containers[id].mount_path \in dirs

\* C20: a create without a host path whose containers.run raised leaves the
\* temporary directory it allocated nowhere on the host.
C20_FailedCreateLeavesNoTemp ==
    (last.op = "create" /\ last.host = NoPath /\ "run" \in last.faults) =>
        last.mount \notin dirs
====
